---- MODULE Spec2Model ----
(***************************************************************************)
(* A model of bevy_file_asset (src/src/lib.rs): the FileAssetReader asset  *)
(* source and its spawn_blocking helper, run against a filesystem that     *)
(* other processes change between the reader's system calls.               *)
(*                                                                         *)
(* A path is a sequence of tokens: "/" is the separator, "." a dot, and    *)
(* every other token a run of ordinary characters (no dot, no separator).  *)
(***************************************************************************)
EXTENDS Naturals, Sequences, FiniteSets

\* Longest input path, in tokens.
MaxPathLen == 4
\* Longest file content, in bytes.
MaxFileLen == 1
\* Most children a directory holds.
MaxChildren == 2
\* Concurrent calls of the reader in the concurrent specification.
MaxCalls == 2

VARIABLES fs, calls

vars == <<fs, calls>>

----------------------------------------------------------------------------
(* Paths: std::path::Path as lib.rs uses it.                               *)

Alphabet == {"a", ".", "/"}

\* A multi-dot name, "a.a.a".
MultiDotPath == <<"a", ".", "a", ".", "a">>

\* Every path of at most MaxPathLen tokens, and the multi-dot name.
Paths == UNION {[1..n -> Alphabet] : n \in 0..MaxPathLen} \cup {MultiDotPath}

None == [some |-> FALSE, val |-> <<>>]

Some(v) == [some |-> TRUE, val |-> v]

Last(s) == s[Len(s)]

Front(s) == SubSeq(s, 1, Len(s) - 1)

\* Components::next_back skips trailing separators and trailing "." components.
RECURSIVE StripTrailing(_)
StripTrailing(p) ==
    IF p = <<>> THEN <<>>
    ELSE IF Last(p) = "/" THEN StripTrailing(Front(p))
    ELSE IF Len(p) >= 2 /\ Last(p) = "." /\ p[Len(p) - 1] = "/"
         THEN StripTrailing(SubSeq(p, 1, Len(p) - 2))
    ELSE p

\* Index in p of the first token of the last component (0: no component).
NameStart(p) ==
    LET t == StripTrailing(p)
        seps == {i \in 1..Len(t) : t[i] = "/"}
    IN IF t = <<>> THEN 0
       ELSE IF seps = {} THEN 1
       ELSE (CHOOSE i \in seps : \A j \in seps : j <= i) + 1

\* Index in p of the last token of the last component.
NameEnd(p) == Len(StripTrailing(p))

\* Path::file_name: the last component when it is a normal one.
file_name(p) ==
    LET n == SubSeq(p, NameStart(p), NameEnd(p))
    IN IF NameStart(p) = 0 \/ n = <<".">> \/ n = <<".", ".">> THEN None ELSE Some(n)

\* Position of the last dot of a file name that splits it (0: none does):
\* rsplit_file_at_dot, which gives a name whose only dot is the first token no
\* extension.
SplitDot(n) ==
    LET dots == {i \in 1..Len(n) : n[i] = "."}
        last == IF dots = {} THEN 0 ELSE CHOOSE i \in dots : \A j \in dots : j <= i
    IN IF last <= 1 THEN 0 ELSE last

\* Path::extension.
extension(p) ==
    LET f == file_name(p)
    IN IF ~f.some \/ SplitDot(f.val) = 0 THEN None
       ELSE Some(SubSeq(f.val, SplitDot(f.val) + 1, Len(f.val)))

\* Path::file_stem, as the index in p of its last token (0: no file name).
StemEnd(p) ==
    LET f == file_name(p)
    IN IF ~f.some THEN 0
       ELSE IF SplitDot(f.val) = 0 THEN NameEnd(p)
       ELSE NameStart(p) + SplitDot(f.val) - 2

\* PathBuf::set_extension: truncate right after the file stem, then push "." and
\* the new extension when it is not empty; a path with no file name is unchanged.
set_extension(p, ext) ==
    IF StemEnd(p) = 0 THEN p
    ELSE SubSeq(p, 1, StemEnd(p)) \o (IF ext = <<>> THEN <<>> ELSE <<".">> \o ext)

\* The string ".meta" pushed onto the extension.
MetaSuffix == <<".", "meta">>

\* A mutant: the extension is replaced by "meta" instead of extended.
make_meta_path_replace(path) ==
    IF ~extension(path).some THEN None
    ELSE Some(set_extension(path, <<"meta">>))

\* A mutant: ".meta" is appended whether or not the path has an extension.
make_meta_path_always(path) == Some(path \o MetaSuffix)

make_meta_path(path) ==
    LET ext == extension(path)
    IN IF ~ext.some THEN None
       ELSE LET meta_ext == ext.val \o MetaSuffix
            IN Some(set_extension(path, meta_ext))

\* The placeholder path of read_meta's error for a path with no extension.
Sentinel == <<"source path has no extension">>

\* Path::join, as DirEntry::path builds a child's path from the directory's
\* path and the child's file name.
Join(p, name) == IF p # <<>> /\ Last(p) = "/" THEN p \o name ELSE p \o <<"/">> \o name

----------------------------------------------------------------------------
(* The filesystem, as the reader's system calls see it.  The working       *)
(* directory holds the watched names and nothing else; fs gives the entry  *)
(* of each watched name.  A path is resolved component by component, as    *)
(* the kernel does, from the working directory or the root.                *)

\* "a.a" and its derived metadata path "a.a.meta".
ContentPath == <<"a", ".", "a">>

WatchedPaths == {ContentPath, ContentPath \o <<".", "meta">>}

Contents == UNION {[1..n -> {0}] : n \in 0..MaxFileLen}

\* The names directory entries take, in the order they are created.
AllNames == <<"x", "y", "z", "w">>

\* The file names of the children of a directory that holds n entries.
Children(n) == {<<AllNames[i]>> : i \in 1..n}

Entry(k, b, ch) == [kind |-> k, bytes |-> b, children |-> ch]

\* No entry: every system call fails with ENOENT.
Missing == Entry("missing", <<>>, {})

\* The path runs through, or ends with a separator after, something that is
\* not a directory: every system call fails with ENOTDIR.
NotDir == Entry("notdir", <<>>, {})

\* The path runs through a directory the process may not search: every system
\* call fails with EACCES.
Denied == Entry("denied", <<>>, {})

\* A regular file the process may not open: stat succeeds, open fails with EACCES.
LockedFile == Entry("lockedfile", <<>>, {})

\* A directory the process may not open: stat succeeds, opendir fails with EACCES.
LockedDir == Entry("lockeddir", <<>>, {})

File(b) == Entry("file", b, {})

Dir(ch) == Entry("dir", <<>>, ch)

\* What a watched name can be.
Entries ==
    {Missing, LockedFile, LockedDir}
        \cup {File(b) : b \in Contents} \cup {Dir(Children(n)) : n \in 0..MaxChildren}

\* The components of a path: the runs of tokens between separators.
RECURSIVE Components(_)
Components(p) ==
    IF p = <<>> THEN <<>>
    ELSE IF p[1] = "/" THEN Components(Tail(p))
    ELSE LET seps == {i \in 1..Len(p) : p[i] = "/"}
             n == IF seps = {} THEN Len(p) + 1 ELSE CHOOSE i \in seps : \A j \in seps : i <= j
         IN <<SubSeq(p, 1, n - 1)>> \o Components(SubSeq(p, n + 1, Len(p)))

\* A place path resolution has reached: the working directory, the root, a
\* directory above the working directory, a watched name, a child of a watched
\* directory, or the error that ended the resolution.
At(where, w) == [where |-> where, w |-> w]

\* What stops the resolution from going through place loc ("ok": nothing).
Through(loc) ==
    CASE loc.where \in {"cwd", "root", "outer"} -> "ok"
      [] loc.where = "child" -> "notdir"
      [] loc.where = "watched" ->
             (CASE fs[loc.w].kind = "dir" -> "ok"
                [] fs[loc.w].kind = "lockeddir" -> "denied"
                [] fs[loc.w].kind = "missing" -> "missing"
                [] OTHER -> "notdir")
      [] OTHER -> loc.where

\* One component of the resolution. Names that are not watched do not exist.
Step(loc, comp) ==
    IF Through(loc) # "ok" THEN At(Through(loc), <<>>)
    ELSE IF comp = <<".">> THEN loc
    ELSE IF comp = <<".", ".">>
         THEN (CASE loc.where = "cwd" -> At("outer", <<>>)
                 [] loc.where = "watched" -> At("cwd", <<>>)
                 [] OTHER -> loc)
    ELSE CASE loc.where = "cwd" ->
                  IF comp \in WatchedPaths THEN At("watched", comp) ELSE At("missing", <<>>)
           [] loc.where = "watched" ->
                  IF comp \in fs[loc.w].children THEN At("child", comp)
                  ELSE At("missing", <<>>)
           [] OTHER -> At("missing", <<>>)

RECURSIVE Walk(_, _)
Walk(loc, comps) == IF comps = <<>> THEN loc ELSE Walk(Step(loc, Head(comps)), Tail(comps))

\* The place a path resolves to. A path that ends with a separator must
\* resolve to a directory.
Resolve(p) ==
    LET start == IF p[1] = "/" THEN At("root", <<>>) ELSE At("cwd", <<>>)
        loc == Walk(start, Components(p))
    IN IF Last(p) = "/" /\ Components(p) # <<>> /\ Through(loc) \in {"notdir", "missing"}
       THEN At(Through(loc), <<>>)
       ELSE loc

\* The path resolves to a directory whose children are not tracked: the root
\* or a directory above the working directory.
Untracked(p) == p # <<>> /\ Resolve(p).where \in {"root", "outer"}

\* The entry a system call finds at path p. The empty path names nothing; the
\* working directory holds the watched names that exist; a child of a watched
\* directory is an empty file.
Lookup(p) ==
    IF p = <<>> THEN Missing
    ELSE LET loc == Resolve(p)
         IN CASE loc.where = "watched" -> fs[loc.w]
              [] loc.where = "cwd" -> Dir({w \in WatchedPaths : fs[w].kind # "missing"})
              [] loc.where \in {"root", "outer"} -> Dir({})
              [] loc.where = "child" -> File(<<>>)
              [] loc.where = "notdir" -> NotDir
              [] loc.where = "denied" -> Denied
              [] OTHER -> Missing

\* The entries fs::read_dir can find at path p: the entry the path resolves
\* to, with any children when they are not tracked.
Listable(p) ==
    IF Untracked(p) THEN {Dir(Children(n)) : n \in 0..MaxChildren} ELSE {Lookup(p)}

\* Path::exists: whether stat succeeds; every error of stat reads as "no".
exists(e) == e.kind \in {"file", "lockedfile", "dir", "lockeddir"}

\* Path::is_dir: whether stat succeeds and reports a directory.
is_dir(e) == e.kind \in {"dir", "lockeddir"}

IoOk(b) == [ok |-> TRUE, bytes |-> b, kind |-> "none"]

IoErr(k) == [ok |-> FALSE, bytes |-> <<>>, kind |-> k]

\* fs::read: the file's bytes, or the io::Error of the failed open or read.
fs_read(e) ==
    CASE e.kind = "file" -> IoOk(e.bytes)
      [] e.kind = "missing" -> IoErr("NotFound")
      [] e.kind = "notdir" -> IoErr("NotADirectory")
      [] e.kind \in {"lockedfile", "lockeddir", "denied"} -> IoErr("PermissionDenied")
      [] OTHER -> IoErr("IsADirectory")

\* fs::read_dir: whether the directory opens, or the io::Error of the failed opendir.
fs_read_dir(e) ==
    CASE e.kind = "dir" -> IoOk(<<>>)
      [] e.kind = "missing" -> IoErr("NotFound")
      [] e.kind \in {"lockeddir", "denied"} -> IoErr("PermissionDenied")
      [] OTHER -> IoErr("NotADirectory")

----------------------------------------------------------------------------
(* What an operation of the reader returns.                                *)

Outcome(t, p, b, k, l, f) ==
    [tag |-> t, path |-> p, bytes |-> b, kind |-> k, list |-> l, flag |-> f]

Pending == Outcome("Pending", <<>>, <<>>, "none", <<>>, FALSE)

\* Ok(Box::new(VecReader::new(bytes)))
OkReader(b) == Outcome("Reader", <<>>, b, "none", <<>>, FALSE)

\* Err(AssetReaderError::NotFound(path))
NotFound(p) == Outcome("NotFound", p, <<>>, "none", <<>>, FALSE)

\* Err(AssetReaderError::Io(err))
Io(k) == Outcome("Io", <<>>, <<>>, k, <<>>, FALSE)

\* Ok(Box::new(stream::iter(entries)))
OkStream(l) == Outcome("Stream", <<>>, <<>>, "none", l, FALSE)

\* Ok(bool)
OkBool(f) == Outcome("Bool", <<>>, <<>>, "none", <<>>, f)

\* The value of a direct use of spawn_blocking.
OkValue(r) == Outcome("Value", <<>>, r.bytes, r.kind, <<>>, r.ok)

\* The panic of expect("spawn_blocking thread panicked").
Fatal == Outcome("Fatal", <<>>, <<>>, "none", <<>>, FALSE)

----------------------------------------------------------------------------
(* A call of the reader: the future, its worker thread and their oneshot   *)
(* channel.  statted, probed and atCheck record the call's existence or    *)
(* directory check: whether it was made, on which path, and the entry it   *)
(* met; atRead and failed record what the read or the enumeration met.     *)

Calls == 1..MaxCalls

Idle ==
    [op |-> "none", path |-> <<>>, target |-> <<>>, pc |-> "idle", out |-> Pending,
     work |-> "none", arg |-> <<>>, worker |-> "none", res |-> IoErr("none"),
     chan |-> "none", statted |-> FALSE, probed |-> <<>>, atCheck |-> Missing,
     atRead |-> Missing, failed |-> {}]

\* The call as it starts operation op on path.
Started(op, path) == [Idle EXCEPT !.op = op, !.path = path]

\* The call after its existence or directory check of path p met entry e.
Checked(rec, p, e) == [rec EXCEPT !.statted = TRUE, !.probed = p, !.atCheck = e]

\* The call as it returns out.
Finish(rec, out) == [rec EXCEPT !.pc = "done", !.out = out]

spawn_blocking(rec, work, arg) ==
    [rec EXCEPT !.work = work, !.arg = arg, !.worker = "running", !.chan = "open",
                !.pc = "await"]

\* file_get up to its await: path is kept for the error and moved into the work.
file_get(rec, path) == spawn_blocking([rec EXCEPT !.target = path], "read", <<>>)

\* A mutant: every error of the read is reported as Io.
MapReadResult_io(result, path_for_error) ==
    IF result.ok THEN OkReader(result.bytes) ELSE Io(result.kind)

\* A mutant: the reader is built empty instead of around the bytes read.
MapReadResult_empty(result, path_for_error) ==
    IF result.ok THEN OkReader(<<>>)
    ELSE IF result.kind = "NotFound" THEN NotFound(path_for_error)
    ELSE Io(result.kind)

\* file_get's match on the result of the offloaded fs::read.
MapReadResult(result, path_for_error) ==
    IF result.ok THEN OkReader(result.bytes)
    ELSE IF result.kind = "NotFound" THEN NotFound(path_for_error)
    ELSE Io(result.kind)

\* A mutant: NotFound carries a fixed path instead of the requested one.
read_wrongpath(c, path) ==
    /\ calls[c].pc = "idle"
    /\ LET e == Lookup(path)
           rec == Checked(Started("read", path), path, e)
       IN calls' = [calls EXCEPT ![c] =
              IF exists(e) THEN file_get(rec, path) ELSE Finish(rec, NotFound(<<>>))]
    /\ UNCHANGED fs

read(c, path) ==
    /\ calls[c].pc = "idle"
    /\ LET e == Lookup(path)
           rec == Checked(Started("read", path), path, e)
       IN calls' = [calls EXCEPT ![c] =
              IF exists(e) THEN file_get(rec, path) ELSE Finish(rec, NotFound(path))]
    /\ UNCHANGED fs

read_meta(c, path) ==
    /\ calls[c].pc = "idle"
    /\ LET m == make_meta_path(path)
           rec == Started("read_meta", path)
       IN calls' = [calls EXCEPT ![c] =
              IF m.some
              THEN LET e == Lookup(m.val)
                   IN IF exists(e) THEN file_get(Checked(rec, m.val, e), m.val)
                      ELSE Finish(Checked(rec, m.val, e), NotFound(m.val))
              ELSE Finish(rec, NotFound(Sentinel))]
    /\ UNCHANGED fs

\* AssetReader::is_directory.
is_directory(c, path) ==
    /\ calls[c].pc = "idle"
    /\ LET e == Lookup(path)
       IN calls' = [calls EXCEPT ![c] =
              Finish(Checked(Started("is_directory", path), path, e), OkBool(is_dir(e)))]
    /\ UNCHANGED fs

\* read_directory's directory check: path.is_dir().
read_directory(c, path) ==
    /\ calls[c].pc = "idle"
    /\ LET e == Lookup(path)
           rec == Checked(Started("read_directory", path), path, e)
       IN calls' = [calls EXCEPT ![c] =
              IF is_dir(e) THEN [rec EXCEPT !.pc = "enumerate", !.target = path]
              ELSE Finish(rec, NotFound(path))]
    /\ UNCHANGED fs

\* The sequences that hold each element of set S exactly once.
Orders(S) == {s \in [1..Cardinality(S) -> S] : \A i, j \in 1..Cardinality(S) : s[i] = s[j] => i = j}

\* A mutant: the entries whose retrieval failed are listed too.
Enumerate_nofilter(rec, e, failed, order) ==
    IF ~fs_read_dir(e).ok THEN Finish(rec, Io(fs_read_dir(e).kind))
    ELSE LET all == order \o (CHOOSE s \in Orders(failed) : TRUE)
         IN Finish(rec, OkStream([i \in 1..Len(all) |-> Join(rec.path, all[i])]))

\* read_directory's enumeration: fs::read_dir, its error mapped to Io, then the
\* entries that were retrieved, in the order the system gave them.
Enumerate(rec, e, failed, order) ==
    IF ~fs_read_dir(e).ok THEN Finish(rec, Io(fs_read_dir(e).kind))
    ELSE Finish(rec, OkStream([i \in 1..Len(order) |-> Join(rec.path, order[i])]))

\* read_directory after the check: the directory as it is now is enumerated;
\* the retrieval of the entries in failed fails.
ReadDirEnumerate(c) ==
    /\ calls[c].pc = "enumerate"
    /\ \E e \in Listable(calls[c].target) :
           \E failed \in SUBSET e.children : \E order \in Orders(e.children \ failed) :
              calls' = [calls EXCEPT ![c] =
                  Enumerate([calls[c] EXCEPT !.atRead = e, !.failed = failed],
                            e, failed, order)]
    /\ UNCHANGED fs

\* The values a unit of work handed directly to the helper returns.
Values == {<<>>, <<0>>}

\* A direct use of spawn_blocking: the work returns the bytes arg, panics, or
\* never returns ("hang").
SpawnBlockingCall(c, work, arg) ==
    /\ calls[c].pc = "idle"
    /\ calls' = [calls EXCEPT ![c] = spawn_blocking(Started("spawn_blocking", <<>>), work, arg)]
    /\ UNCHANGED fs

\* The worker thread runs the work: let res = f(). A panic of the work unwinds
\* the thread, which drops tx. Work that never returns keeps the thread in f().
WorkerRun(c) ==
    /\ calls[c].worker = "running"
    /\ calls[c].work # "hang"
    /\ LET r == calls[c]
       IN calls' = [calls EXCEPT ![c] =
              CASE r.work = "read" ->
                       [r EXCEPT !.worker = "computed", !.atRead = Lookup(r.target),
                                 !.res = fs_read(Lookup(r.target))]
                [] r.work = "value" -> [r EXCEPT !.worker = "computed", !.res = IoOk(r.arg)]
                [] OTHER ->
                       [r EXCEPT !.worker = "panicked",
                                 !.chan = IF r.chan = "open" THEN "closed" ELSE r.chan]]
    /\ UNCHANGED fs

\* A mutant: the worker unwraps the result of the send, so it panics when the
\* receiver is gone.
WorkerSend_unwrap(c) ==
    /\ calls[c].worker = "computed"
    /\ LET r == calls[c]
       IN calls' = [calls EXCEPT ![c] =
              IF r.chan = "open" THEN [r EXCEPT !.worker = "sent", !.chan = "sent"]
              ELSE [r EXCEPT !.worker = "panicked"]]
    /\ UNCHANGED fs

\* The worker thread sends: let _ = tx.send(res). The send fails when the
\* receiver is gone, and the failure is ignored. The send wakes the receiver
\* while the thread is still running.
WorkerSend(c) ==
    /\ calls[c].worker = "computed"
    /\ calls' = [calls EXCEPT ![c] =
           [@ EXCEPT !.worker = "sent", !.chan = IF @ = "open" THEN "sent" ELSE @]]
    /\ UNCHANGED fs

\* The worker thread's closure returns and the thread ends.
WorkerExit(c) ==
    /\ calls[c].worker = "sent"
    /\ calls' = [calls EXCEPT ![c] = [@ EXCEPT !.worker = "finished"]]
    /\ UNCHANGED fs

\* A mutant: the receiver never learns that the sender was dropped.
Await_hang(c) ==
    /\ calls[c].pc = "await"
    /\ calls[c].chan = "sent"
    /\ LET r == calls[c]
       IN calls' = [calls EXCEPT ![c] =
              [r EXCEPT !.pc = "done", !.chan = "taken",
                        !.out = IF r.op = "spawn_blocking" THEN OkValue(r.res)
                                ELSE MapReadResult(r.res, r.target)]]
    /\ UNCHANGED fs

\* rx.await.expect(..) resumes: with the value sent, which a direct caller gets
\* as it is and file_get matches on; or, the sender dropped, with a panic.
Await(c) ==
    /\ calls[c].pc = "await"
    /\ calls[c].chan \in {"sent", "closed"}
    /\ LET r == calls[c]
       IN calls' = [calls EXCEPT ![c] =
              IF r.chan = "closed" THEN [r EXCEPT !.pc = "panicked", !.out = Fatal]
              ELSE [r EXCEPT !.pc = "done", !.chan = "taken",
                             !.out = IF r.op = "spawn_blocking" THEN OkValue(r.res)
                                     ELSE MapReadResult(r.res, r.target)]]
    /\ UNCHANGED fs

\* The caller drops the suspended future, and rx with it.
Abandon(c) ==
    /\ calls[c].pc = "await"
    /\ calls' = [calls EXCEPT ![c] = [@ EXCEPT !.pc = "dropped", !.chan = "rx_dropped"]]
    /\ UNCHANGED fs

\* Another process changes what path p resolves to.
FsChange(p, e) ==
    /\ fs[p] # e
    /\ fs' = [fs EXCEPT ![p] = e]
    /\ UNCHANGED calls

\* The call has yet to look at the filesystem again: its worker has not run
\* its work, or its directory has not been enumerated.
Racing(r) == r.pc = "enumerate" \/ r.worker = "running"

----------------------------------------------------------------------------
(* Spec: one call of any operation on any path. The call starts in any     *)
(* state of the watched entries, and they change in any way between the    *)
(* call's looks at the filesystem; changes before its first look are the   *)
(* choice of the initial state, and changes after its last look cannot     *)
(* reach it.                                                               *)

Init ==
    /\ fs \in [WatchedPaths -> Entries]
    /\ calls = [c \in Calls |-> Idle]

Next ==
    \/ \E p \in Paths : read(1, p)
    \/ \E p \in Paths : read_meta(1, p)
    \/ \E p \in Paths : is_directory(1, p)
    \/ \E p \in Paths : read_directory(1, p)
    \/ ReadDirEnumerate(1)
    \/ \E b \in Values : SpawnBlockingCall(1, "value", b)
    \/ SpawnBlockingCall(1, "panic", <<>>)
    \/ SpawnBlockingCall(1, "hang", <<>>)
    \/ WorkerRun(1)
    \/ WorkerSend(1)
    \/ WorkerExit(1)
    \/ Await(1)
    \/ Abandon(1)
    \/ /\ Racing(calls[1])
       /\ \E p \in WatchedPaths, e \in Entries : FsChange(p, e)

Spec == Init /\ [][Next]_vars

(* ConcSpec: concurrent reads of one path and direct uses of the helper.   *)

ConcInit ==
    /\ fs \in [WatchedPaths -> {Missing}]
    /\ calls = [c \in Calls |-> Idle]

ConcNext ==
    \/ \E c \in Calls : read(c, ContentPath)
    \/ \E c \in Calls, b \in Values : SpawnBlockingCall(c, "value", b)
    \/ \E c \in Calls : SpawnBlockingCall(c, "panic", <<>>)
    \/ \E c \in Calls : SpawnBlockingCall(c, "hang", <<>>)
    \/ \E c \in Calls : WorkerRun(c)
    \/ \E c \in Calls : WorkerSend(c)
    \/ \E c \in Calls : WorkerExit(c)
    \/ \E c \in Calls : Await(c)
    \/ \E c \in Calls : Abandon(c)
    \/ \E e \in {Missing, File(<<>>)} : FsChange(ContentPath, e)

ConcSpec == ConcInit /\ [][ConcNext]_vars

\* The operating system schedules every worker thread, and the executor polls a
\* future whose channel has woken it.
Fairness ==
    \A c \in Calls :
        /\ WF_vars(WorkerRun(c)) /\ WF_vars(WorkerSend(c)) /\ WF_vars(WorkerExit(c))
        /\ WF_vars(Await(c))

FairSpec == ConcSpec /\ Fairness

----------------------------------------------------------------------------
(* The claims.                                                             *)

\* The call has returned, normally or with the helper's panic.
Ended(r) == r.pc \in {"done", "panicked"}

\* The path does not exist: no entry, or a prefix that is not a directory.
NonExistent(e) == e.kind \in {"missing", "notdir"}

\* C1: a read of a path that does not exist when read checks it has ended with
\* NotFound carrying exactly the requested path, and no worker was spawned.
C1_ReadMissingNotFound ==
    \A c \in Calls :
        (calls[c].op = "read" /\ NonExistent(calls[c].atCheck)) =>
            /\ calls[c].pc = "done"
            /\ calls[c].out = NotFound(calls[c].path)
            /\ calls[c].worker = "none"

\* C1's case: a read of the watched content path, missing, has returned.
C1_Witness ==
    /\ calls[1].op = "read"
    /\ calls[1].path = ContentPath
    /\ calls[1].atCheck = Missing
    /\ calls[1].pc = "done"

\* C2 as stated: a read of a file that was a regular file when read checked it
\* ends with a reader over the bytes the file held at that time, whatever other
\* processes do to the file before the offloaded read runs.
C2_Original ==
    \A c \in Calls :
        (calls[c].op = "read" /\ calls[c].atCheck.kind = "file" /\ Ended(calls[c])) =>
            calls[c].out = OkReader(calls[c].atCheck.bytes)

\* C2 as amended: a read of a file that was a regular file when read checked it
\* ends with the outcome of the offloaded read at the time that read runs: a
\* reader over the bytes the file holds then when it is still a readable
\* regular file (the bytes of call time when nothing changed the file in
\* between), NotFound(path) when it is gone, Io otherwise; never a panic.
C2_ReadReturnsBytesAtReadTime ==
    \A c \in Calls :
        (calls[c].op = "read" /\ calls[c].atCheck.kind = "file" /\ Ended(calls[c])) =>
            /\ calls[c].pc = "done"
            /\ calls[c].atRead.kind = "file" => calls[c].out = OkReader(calls[c].atRead.bytes)
            /\ calls[c].atRead = calls[c].atCheck =>
                   calls[c].out = OkReader(calls[c].atCheck.bytes)
            /\ calls[c].atRead.kind = "missing" => calls[c].out = NotFound(calls[c].path)
            /\ calls[c].atRead.kind \notin {"file", "missing"} => calls[c].out.tag = "Io"

\* C2's case: a read of an unchanged one-byte file has returned its byte.
C2_Witness ==
    /\ calls[1].op = "read"
    /\ calls[1].atCheck = File(<<0>>)
    /\ calls[1].atRead = File(<<0>>)
    /\ calls[1].pc = "done"
    /\ calls[1].out = OkReader(<<0>>)

\* The path read and read_meta hand to file_get.
ReadPath(r) == IF r.op = "read" THEN r.path ELSE make_meta_path(r.path).val

\* C3: a read or read_meta whose file passed the existence check and was gone
\* when the offloaded read ran ends with NotFound carrying the path that was
\* read, never with Io, a reader or a panic.
C3_DeletedAfterCheckNotFound ==
    \A c \in Calls :
        (/\ calls[c].op \in {"read", "read_meta"}
         /\ exists(calls[c].atCheck)
         /\ calls[c].worker \in {"computed", "sent", "finished"}
         /\ calls[c].atRead.kind = "missing"
         /\ calls[c].pc \notin {"await", "dropped"}) =>
            /\ calls[c].pc = "done"
            /\ calls[c].out = NotFound(calls[c].target)
            /\ calls[c].probed = calls[c].target
            /\ calls[c].target = ReadPath(calls[c])

\* C3's case: read_meta of the content path found the metadata file, which was
\* deleted before the worker read it, and has returned.
C3_Witness ==
    /\ calls[1].op = "read_meta"
    /\ calls[1].path = ContentPath
    /\ calls[1].atCheck.kind = "file"
    /\ calls[1].atRead = Missing
    /\ calls[1].pc = "done"

\* The path is of the form name.ext: it has an extension and ends with its
\* file name (no trailing separator or "." component after it).
HasNameExtForm(p) == extension(p).some /\ NameEnd(p) = Len(p)

\* C4: read_meta of a path of the form name.ext checks, and reads, the path
\* with ".meta" appended; when that path does not exist it has ended with
\* NotFound carrying the derived path.
C4_MetaPathAppendsMeta ==
    \A c \in Calls :
        (calls[c].op = "read_meta" /\ HasNameExtForm(calls[c].path)) =>
            /\ calls[c].statted
            /\ calls[c].probed = calls[c].path \o MetaSuffix
            /\ calls[c].worker # "none" => calls[c].target = calls[c].path \o MetaSuffix
            /\ ~exists(calls[c].atCheck) =>
                   /\ calls[c].pc = "done"
                   /\ calls[c].out = NotFound(calls[c].path \o MetaSuffix)
                   /\ calls[c].worker = "none"

\* C4's case: read_meta of a multi-dot name whose metadata file is missing.
C4_Witness ==
    /\ calls[1].op = "read_meta"
    /\ calls[1].path = MultiDotPath
    /\ calls[1].pc = "done"
    /\ calls[1].out = NotFound(<<"a", ".", "a", ".", "a", ".", "meta">>)

\* C5: read_meta of a path with no extension has ended with NotFound carrying
\* the placeholder path, having made no existence check and spawned no worker.
C5_NoExtensionSentinel ==
    \A c \in Calls :
        (calls[c].op = "read_meta" /\ ~extension(calls[c].path).some) =>
            /\ calls[c].pc = "done"
            /\ calls[c].out = NotFound(Sentinel)
            /\ ~calls[c].statted
            /\ calls[c].worker = "none"
            /\ calls[c].chan = "none"

\* C5's case: read_meta of "a" while a file sits at the watched paths.
C5_Witness ==
    /\ calls[1].op = "read_meta"
    /\ calls[1].path = <<"a">>
    /\ calls[1].pc = "done"
    /\ \A p \in WatchedPaths : fs[p].kind = "file"

\* The paths of a listing.
Range(l) == {l[i] : i \in 1..Len(l)}

\* The listing holds exactly the children of entry e that were retrieved, each once.
ExactListing(r, e) ==
    /\ r.out.tag = "Stream"
    /\ Range(r.out.list) = {Join(r.path, n) : n \in e.children \ r.failed}
    /\ Len(r.out.list) = Cardinality(e.children \ r.failed)

\* C6 as stated: read_directory of a path that was a directory when it was
\* checked ends with a listing of exactly the children that were retrieved.
C6_Original ==
    \A c \in Calls :
        (calls[c].op = "read_directory" /\ is_dir(calls[c].atCheck) /\ Ended(calls[c])) =>
            ExactListing(calls[c], calls[c].atRead)

\* C6 as amended: read_directory of a path that passed the directory check ends,
\* when fs::read_dir opens the directory, with a listing of exactly the children
\* that were retrieved, each once, the failed ones left out; when fs::read_dir
\* fails (the directory was removed or may not be opened) it ends with Io.
C6_ListingOfOpenedDirectory ==
    \A c \in Calls :
        (calls[c].op = "read_directory" /\ is_dir(calls[c].atCheck) /\ Ended(calls[c])) =>
            /\ calls[c].pc = "done"
            /\ calls[c].atRead.kind = "dir" => ExactListing(calls[c], calls[c].atRead)
            /\ calls[c].atRead.kind # "dir" => calls[c].out.tag = "Io"

\* C6's case: a directory of two children, one of which failed, was listed.
C6_Witness ==
    /\ calls[1].op = "read_directory"
    /\ calls[1].pc = "done"
    /\ Cardinality(calls[1].atRead.children) = 2
    /\ Cardinality(calls[1].failed) = 1
    /\ Len(calls[1].out.list) = 1

\* C7: read_directory of a path that is not a directory, when it is checked or
\* when it is enumerated, ends with NotFound carrying the path.
C7_NotDirectoryNotFound ==
    \A c \in Calls :
        (/\ calls[c].op = "read_directory"
         /\ Ended(calls[c])
         /\ ~is_dir(calls[c].atCheck) \/ ~is_dir(calls[c].atRead)) =>
            calls[c].out = NotFound(calls[c].path)

\* The class of an outcome: a reader, NotFound with its path, or Io.
Class(o) == <<o.tag, o.path>>

\* C9: a read that ended on the existence check alone ends as the offloaded
\* read and its error mapping would have on the entry the check met.
C9_CheckIsOnlyFastPath ==
    \A c \in Calls :
        (calls[c].op = "read" /\ calls[c].pc = "done" /\ calls[c].worker = "none") =>
            Class(calls[c].out) = Class(MapReadResult(fs_read(calls[c].atCheck), calls[c].path))

\* What the helper guarantees a call that has left its await.
HelperOutcome(r) ==
    /\ r.pc = "done" /\ r.worker # "none" =>
           /\ r.worker \in {"sent", "finished"}
           /\ r.chan = "taken"
           /\ r.op = "spawn_blocking" => r.work = "value" /\ r.out = OkValue(IoOk(r.arg))
           /\ r.op # "spawn_blocking" => r.out = MapReadResult(fs_read(r.atRead), r.target)
    /\ r.pc = "panicked" => r.worker = "panicked" /\ r.out = Fatal
    /\ r.worker = "panicked" /\ r.pc \notin {"await", "dropped"} => r.pc = "panicked"
    /\ r.chan = "taken" => r.pc = "done"
    /\ r.work = "hang" => r.pc \in {"await", "dropped"} /\ r.worker = "running"

\* C8: a call of the helper whose work terminates (returns or panics) leaves
\* its await. A call that returned got exactly the value its work returned,
\* taken once from the channel after the worker completed the work and sent
\* it; a call whose worker panicked fails with the helper's panic, never with
\* a typed error, and does not stay suspended. Only a call whose work never
\* returns stays suspended.
C8_HelperResolvesOrPanics ==
    /\ [](\A c \in Calls : HelperOutcome(calls[c]))
    /\ \A c \in Calls :
           (calls[c].pc = "await" /\ calls[c].work # "hang") ~> (calls[c].pc # "await")

\* C8's case: one direct use of the helper returned its work's value while its
\* worker thread was still ending, and another failed on its worker's panic.
C8_Witness ==
    \E c, d \in Calls :
        /\ calls[c].op = "spawn_blocking" /\ calls[c].pc = "done"
        /\ calls[c].out = OkValue(IoOk(<<0>>)) /\ calls[c].worker = "sent"
        /\ calls[d].pc = "panicked"

\* The worker of an abandoned read is not harmed by the failed send.
AbandonedWorker(r) ==
    (r.pc = "dropped" /\ r.work = "read") =>
        /\ r.worker # "panicked"
        /\ r.worker = "finished" => r.res = fs_read(r.atRead) /\ r.chan = "rx_dropped"

\* C10: the worker of a read whose caller dropped the future runs its read and
\* ends normally, and the drop changes no other call and not the filesystem.
C10_AbandonedWorkerCompletes ==
    /\ [](\A c \in Calls : AbandonedWorker(calls[c]))
    /\ \A c \in Calls :
           (calls[c].pc = "dropped" /\ calls[c].work = "read") ~> (calls[c].worker = "finished")
    /\ [][\A c \in Calls :
              (calls[c].pc = "await" /\ calls'[c].pc = "dropped") =>
                  /\ fs' = fs
                  /\ \A d \in Calls \ {c} : calls'[d] = calls[d]]_vars

\* C10's case: the worker of an abandoned read finished after the future was
\* dropped, and another call returned.
C10_Witness ==
    \E c, d \in Calls :
        /\ calls[c].op = "read" /\ calls[c].pc = "dropped"
        /\ calls[c].worker = "finished" /\ calls[c].chan = "rx_dropped"
        /\ d # c /\ calls[d].pc = "done" /\ calls[d].worker = "finished"

====
